---- MODULE Spec2Model ----
(***************************************************************************)
(* A model of agg-files: FileProcessor (src/file_processor.rs) with its    *)
(* collaborators PatternMatcher (src/pattern_matcher.rs) and               *)
(* IgnoreFilesHelper (src/ignore_files_helper.rs).                         *)
(*                                                                         *)
(* Strings are sequences of one-character strings.  A PathBuf is the       *)
(* sequence of its components (std::path::Path compares, orders and        *)
(* hashes paths by components); the component "." (CurDir) is kept only in *)
(* first position, as Path::components does.                               *)
(***************************************************************************)
EXTENDS Integers, Sequences, FiniteSets, TLC

(***************************************************************************)
(* Bounds of the model.                                                    *)
(***************************************************************************)
MaxPatterns == 2
MaxChunks == 3
MaxSize == 2
MaxCeiling == 2
MaxPatternLen == 3

(***************************************************************************)
(* Option<T>: None, or Some(v).                                            *)
(***************************************************************************)
None == [some |-> FALSE, v |-> 0]
Some(x) == [some |-> TRUE, v |-> x]

(***************************************************************************)
(* Characters and strings.  Alphabet lists the characters in byte order.   *)
(***************************************************************************)
Alphabet == <<" ", "$", "(", ")", "*", ",", ".", "/", "\\",
              "a", "b", "c", "d", "g", "h", "i", "m", "r", "s", "t",
              "{", "|", "}">>

CharRank(c) == CHOOSE i \in 1..Len(Alphabet) : Alphabet[i] = c

\* Byte-wise lexicographic order of two strings (OsStr's Ord).
RECURSIVE StrLess(_, _)
StrLess(x, y) ==
    IF y = <<>> THEN FALSE
    ELSE IF x = <<>> THEN TRUE
    ELSE IF Head(x) = Head(y) THEN StrLess(Tail(x), Tail(y))
    ELSE CharRank(Head(x)) < CharRank(Head(y))

\* str::replace of every occurrence of the character c by the string r.
RECURSIVE Replace(_, _, _)
Replace(str, c, r) ==
    IF str = <<>> THEN <<>>
    ELSE (IF Head(str) = c THEN r ELSE <<Head(str)>>) \o Replace(Tail(str), c, r)

(***************************************************************************)
(* Paths.                                                                  *)
(***************************************************************************)
CurDir == <<".">>

\* The pieces of a string between its "/" separators.
RECURSIVE SplitSlash(_, _)
SplitSlash(str, acc) ==
    IF str = <<>> THEN <<acc>>
    ELSE IF Head(str) = "/" THEN <<acc>> \o SplitSlash(Tail(str), <<>>)
    ELSE SplitSlash(Tail(str), Append(acc, Head(str)))

\* Path::new(s).components(): empty pieces are dropped, "." is kept only first.
Components(str) ==
    LET parts == SplitSlash(str, <<>>)
        keep(i) == /\ parts[i] # <<>>
                   /\ (parts[i] = CurDir => i = 1)
        RECURSIVE Pick(_)
        Pick(i) == IF i > Len(parts) THEN <<>>
                   ELSE (IF keep(i) THEN <<parts[i]>> ELSE <<>>) \o Pick(i + 1)
    IN  Pick(1)

\* Path::to_str / display: the components joined by "/".
RECURSIVE to_str(_)
to_str(path) ==
    IF path = <<>> THEN <<>>
    ELSE IF Len(path) = 1 THEN path[1]
    ELSE path[1] \o <<"/">> \o to_str(Tail(path))

\* Path::join of a directory path and a relative path below it.
Join(base, rel) == base \o rel

\* The file system entry a relative path names, from the working directory:
\* the path without its CurDir component.
RECURSIVE Abs(_)
Abs(path) ==
    IF path = <<>> THEN <<>>
    ELSE (IF Head(path) = CurDir THEN <<>> ELSE <<Head(path)>>) \o Abs(Tail(path))

\* Ord of std::path::Component: CurDir sorts before every Normal component,
\* Normal components sort by their bytes.
CompLess(c, d) ==
    IF c = CurDir THEN d # CurDir
    ELSE IF d = CurDir THEN FALSE
    ELSE StrLess(c, d)

\* Ord of Path: lexicographic over the components.
RECURSIVE PathLess(_, _)
PathLess(p, q) ==
    IF q = <<>> THEN FALSE
    ELSE IF p = <<>> THEN TRUE
    ELSE IF Head(p) = Head(q) THEN PathLess(Tail(p), Tail(q))
    ELSE CompLess(Head(p), Head(q))

(***************************************************************************)
(* PatternMatcher: the regular expression built from a glob pattern, and   *)
(* the regex crate's reading of it.  The translation only ever produces    *)
(* the atoms "\c" (the character c), ".*" (any run of characters), "$"     *)
(* (end of text), plain characters, groups "( )" and alternation "|".      *)
(***************************************************************************)

\* The text handed to Regex::new: the replacements in the code's order,
\* between ".*" and "$".
RegexSource(pattern) ==
    LET r1 == Replace(pattern, ".", <<"\\", ".">>)
        r2 == Replace(r1, "*", <<".", "*">>)
        r3 == Replace(r2, "{", <<"(">>)
        r4 == Replace(r3, "}", <<")">>)
        r5 == Replace(r4, ",", <<"|">>)
        r6 == Replace(r5, " ", <<>>)
    IN  <<".", "*">> \o r6 \o <<"$">>

\* Regex::new succeeds on re[i..] read at group nesting depth d: every group
\* is closed and every ")" closes one.
RECURSIVE Balanced(_, _, _)
Balanced(re, i, d) ==
    IF i > Len(re) THEN d = 0
    ELSE IF re[i] = "\\" THEN Balanced(re, i + 2, d)
    ELSE IF re[i] = "(" THEN Balanced(re, i + 1, d + 1)
    ELSE IF re[i] = ")" THEN (IF d = 0 THEN FALSE ELSE Balanced(re, i + 1, d - 1))
    ELSE Balanced(re, i + 1, d)

\* Regex::new(re).is_ok()
Compiles(re) == Balanced(re, 1, 0)

\* glob_to_regex: Regex::new(..).unwrap() panics when the text does not compile.
glob_to_regex(pattern) ==
    LET re == RegexSource(pattern)
    IN  [ok |-> Compiles(re), re |-> re]

\* The index of the ")" that closes the group opened at re[lo].
RECURSIVE CloseOf(_, _, _)
CloseOf(re, i, depth) ==
    IF re[i] = "\\" THEN CloseOf(re, i + 2, depth)
    ELSE IF re[i] = "(" THEN CloseOf(re, i + 1, depth + 1)
    ELSE IF re[i] = ")" THEN (IF depth = 1 THEN i ELSE CloseOf(re, i + 1, depth - 1))
    ELSE CloseOf(re, i + 1, depth)

\* The index of the first "|" of re[lo..hi] outside every group, or 0.
RECURSIVE FirstBar(_, _, _)
FirstBar(re, lo, hi) ==
    IF lo > hi THEN 0
    ELSE IF re[lo] = "\\" THEN FirstBar(re, lo + 2, hi)
    ELSE IF re[lo] = "(" THEN FirstBar(re, CloseOf(re, lo, 0) + 1, hi)
    ELSE IF re[lo] = "|" THEN lo
    ELSE FirstBar(re, lo + 1, hi)

\* The positions of text s at which a match of re[lo..hi] can end when it
\* starts at one of the positions in from (position i is before s[i]).
RECURSIVE Ends(_, _, _, _, _)
RECURSIVE EndsConcat(_, _, _, _, _)
Ends(re, lo, hi, s, from) ==
    LET bar == FirstBar(re, lo, hi)
    IN  IF bar = 0 THEN EndsConcat(re, lo, hi, s, from)
        ELSE EndsConcat(re, lo, bar - 1, s, from) \cup Ends(re, bar + 1, hi, s, from)

EndsConcat(re, lo, hi, s, from) ==
    LET Lit(c) == {i + 1 : i \in {j \in from : j <= Len(s) /\ s[j] = c}}
    IN  IF lo > hi \/ from = {} THEN from
        ELSE IF re[lo] = "\\" THEN EndsConcat(re, lo + 2, hi, s, Lit(re[lo + 1]))
        ELSE IF re[lo] = "." /\ lo < hi /\ re[lo + 1] = "*"
             THEN EndsConcat(re, lo + 2, hi, s,
                             {j \in 1..(Len(s) + 1) : \E i \in from : i <= j})
        ELSE IF re[lo] = "."
             THEN EndsConcat(re, lo + 1, hi, s, {i + 1 : i \in {j \in from : j <= Len(s)}})
        ELSE IF re[lo] = "$"
             THEN EndsConcat(re, lo + 1, hi, s, from \cap {Len(s) + 1})
        ELSE IF re[lo] = "("
             THEN LET close == CloseOf(re, lo, 0)
                  IN  EndsConcat(re, close + 1, hi, s, Ends(re, lo + 1, close - 1, s, from))
        ELSE EndsConcat(re, lo + 1, hi, s, Lit(re[lo]))

\* Regex::is_match: the expression matches somewhere in the text.
is_match(regex, text) ==
    Ends(regex.re, 1, Len(regex.re), text, 1..(Len(text) + 1)) # {}

(***************************************************************************)
(* The file system the program runs on: the tree below the working         *)
(* directory, and what reading a file gives.                               *)
(***************************************************************************)
N_a == <<"a", ".", "r", "s">>
N_b == <<"b", ".", "m", "d">>
N_s == <<"s">>
N_c == <<"c", ".", "r", "s">>
N_t == <<"t">>
N_d == <<"d", ".", "r", "s">>
N_git == <<".", "g", "i", "t">>
N_h == <<"h">>

\* a.rs  b.md  s/c.rs  s/t/d.rs  .git/h
Tree ==
    { [abs |-> <<N_a>>, dir |-> FALSE],
      [abs |-> <<N_b>>, dir |-> FALSE],
      [abs |-> <<N_s>>, dir |-> TRUE],
      [abs |-> <<N_s, N_c>>, dir |-> FALSE],
      [abs |-> <<N_s, N_t>>, dir |-> TRUE],
      [abs |-> <<N_s, N_t, N_d>>, dir |-> FALSE],
      [abs |-> <<N_git>>, dir |-> TRUE],
      [abs |-> <<N_git, N_h>>, dir |-> FALSE] }

Files == {e.abs : e \in {x \in Tree : ~x.dir}}

\* Path::is_dir, Path::is_file, Path::exists, relative to the working directory.
is_dir(path) == Abs(path) = <<>> \/ [abs |-> Abs(path), dir |-> TRUE] \in Tree
is_file(path) == [abs |-> Abs(path), dir |-> FALSE] \in Tree
exists(path) == is_dir(path) \/ is_file(path)

\* What the rules of the VCS ignore file (.gitignore) and of the custom ignore
\* file (to_ignore) match when the file is there: the directory s/t, and the
\* file b.md.
GitignoreRules == {<<N_s, N_t>>}
CustomRules == {<<N_b>>}

BinaryMaxSize == 1000000
SniffLen == 1024

\* A file's size in bytes, the position of its first null byte (0: none),
\* whether it decodes as UTF-8, and its number of lines.
BaseFs ==
    (<<N_a>> :> [size |-> 2, nullAt |-> 0, utf8 |-> TRUE, lines |-> 2]) @@
    (<<N_b>> :> [size |-> 2, nullAt |-> 0, utf8 |-> TRUE, lines |-> 1]) @@
    (<<N_s, N_c>> :> [size |-> 3, nullAt |-> 1, utf8 |-> TRUE, lines |-> 1]) @@
    (<<N_s, N_t, N_d>> :>
        [size |-> BinaryMaxSize + 1, nullAt |-> 0, utf8 |-> TRUE, lines |-> 3]) @@
    (<<N_git, N_h>> :> [size |-> 1, nullAt |-> 0, utf8 |-> TRUE, lines |-> 1])

\* The same tree with contents at the edges of the classifier: a null byte
\* after the sniffed prefix, bytes that are no UTF-8, an empty file, and a
\* file of exactly the size limit.
EdgeFs ==
    (<<N_a>> :> [size |-> SniffLen + 1, nullAt |-> SniffLen + 1, utf8 |-> TRUE, lines |-> 3]) @@
    (<<N_b>> :> [size |-> 2, nullAt |-> 0, utf8 |-> FALSE, lines |-> 1]) @@
    (<<N_s, N_c>> :> [size |-> 0, nullAt |-> 0, utf8 |-> TRUE, lines |-> 0]) @@
    (<<N_s, N_t, N_d>> :>
        [size |-> BinaryMaxSize, nullAt |-> 0, utf8 |-> TRUE, lines |-> 2]) @@
    (<<N_git, N_h>> :> [size |-> 1, nullAt |-> 0, utf8 |-> TRUE, lines |-> 1])

FsStates == {BaseFs, EdgeFs}

(***************************************************************************)
(* The patterns of the command line.                                       *)
(***************************************************************************)
P_rs == <<"*", ".", "r", "s">>
P_all == <<"*">>
P_open == <<"{">>
P_file == N_a
P_dir == N_s

PatternSet == {P_rs, P_all, P_open, P_file, P_dir}

RECURSIVE SeqsUpTo(_, _)
SeqsUpTo(S, n) ==
    IF n = 0 THEN {<<>>}
    ELSE LET shorter == SeqsUpTo(S, n - 1)
         IN  shorter \cup {Append(q, x) : q \in {r \in shorter : Len(r) = n - 1}, x \in S}

\* CliArgs::is_valid: process runs with at least one pattern.
PatternLists == SeqsUpTo(PatternSet, MaxPatterns) \ {<<>>}

VARIABLES
    args,               \* CliArgs
    rule_files,         \* which ignore rule files exist in the working directory
    fs,                 \* the attributes of the files
    gone,               \* the files whose metadata cannot be read once collected
    ignore_helper,      \* FileProcessor.ignore_helper
    files,              \* collect_files' local list
    files_to_process,   \* FileProcessor.files_to_process
    ignored_files,      \* FileProcessor.ignored_files
    processed_files,    \* FileProcessor.processed_files
    pc,                 \* where process is
    pattern_index,      \* the pattern collect_files is at
    files_with_sizes,   \* distribute_files' local list, sorted
    next_file,          \* the entry of files_with_sizes the loop is at
    result,             \* distribute_files' local chunks
    chunk_sizes,        \* distribute_files' running totals
    summary,            \* the distribution summary distribute_files printed
    chunks,             \* what distribute_files returned
    chunk_index,        \* the chunk the loop of process is at
    created,            \* the paths process created a chunk output file at, in order
    outputs,            \* the files of the output directory and what was written to each
    printed             \* the reports of process on how the run ended

vars == <<args, rule_files, fs, gone, ignore_helper, files, files_to_process,
          ignored_files, processed_files, pc, pattern_index, files_with_sizes,
          next_file, result, chunk_sizes, summary, chunks, chunk_index, created,
          outputs, printed>>

working_dir == <<CurDir>>

(***************************************************************************)
(* IgnoreFilesHelper                                                       *)
(***************************************************************************)
NoRules == [some |-> FALSE, v |-> {}]

\* IgnoreFilesHelper::new: a rule source is there when its file can be read.
IgnoreFilesHelper_new(rf) ==
    [ gitignore |-> IF rf.gitignore THEN [some |-> TRUE, v |-> GitignoreRules] ELSE NoRules,
      custom_ignore |-> IF rf.custom THEN [some |-> TRUE, v |-> CustomRules] ELSE NoRules ]

\* Gitignore::matched(path, is_dir).is_ignore()
matched(rules, path) == Abs(path) \in rules

is_ignored(ih, path) ==
    IF ih.custom_ignore.some /\ matched(ih.custom_ignore.v, path) THEN TRUE
    ELSE IF ih.gitignore.some /\ matched(ih.gitignore.v, path) THEN TRUE
    ELSE FALSE

\* FileProcessor::new: the helper is built when neither option is set.
NewIgnoreHelper(a, rf) ==
    IF ~a.ignore_gitignore /\ ~a.ignore_custom
    THEN [some |-> TRUE, v |-> IgnoreFilesHelper_new(rf)]
    ELSE [some |-> FALSE, v |-> IgnoreFilesHelper_new([gitignore |-> FALSE, custom |-> FALSE])]

(***************************************************************************)
(* FileClassifier                                                          *)
(***************************************************************************)
is_binary_file(f, path) ==
    LET m == f[Abs(path)]
    IN  IF m.size > BinaryMaxSize THEN TRUE
        ELSE LET check_size == IF SniffLen < m.size THEN SniffLen ELSE m.size
             IN  m.nullAt # 0 /\ m.nullAt <= check_size

\* count_lines: Err for a binary file and for text that does not decode.
count_lines(f, path) ==
    IF is_binary_file(f, path) THEN [ok |-> FALSE, lines |-> 0]
    ELSE IF ~f[Abs(path)].utf8 THEN [ok |-> FALSE, lines |-> 0]
    ELSE [ok |-> TRUE, lines |-> f[Abs(path)].lines]

\* should_include_file with the ceiling itself refused: line_count >= max_lines.
should_include_below_ceiling(a, f, path) ==
    IF a.max_lines.some
    THEN LET counted == count_lines(f, path)
         IN  IF counted.ok THEN ~(counted.lines >= a.max_lines.v) ELSE FALSE
    ELSE TRUE

should_include_file(a, f, path) ==
    IF a.max_lines.some
    THEN LET counted == count_lines(f, path)
         IN  IF counted.ok THEN ~(counted.lines > a.max_lines.v) ELSE FALSE
    ELSE TRUE

(***************************************************************************)
(* Directory walks                                                         *)
(***************************************************************************)
\* The closure without its test of the components: the ignore rules alone.
should_process_by_rules(ih, path) ==
    IF ih.some THEN ~is_ignored(ih.v, path) ELSE TRUE

\* The closure both walks filter their entries with.
should_process(ih, path) ==
    /\ ~\E i \in 1..Len(path) : path[i] = N_git
    /\ IF ih.some THEN ~is_ignored(ih.v, path) ELSE TRUE

\* WalkDir::new(working_dir), with max_depth(1) unless -r is given.
create_walker(a) == [root |-> working_dir, limited |-> ~a.recursive]

\* WalkDir::new(dir)
WalkDir_new(dir) == [root |-> dir, limited |-> FALSE]

\* The paths of the regular files a walk yields: WalkDir gives the root and
\* what is below it down to its depth limit, filter_entry drops an entry the
\* closure refuses and does not descend into it, and the is_file filter keeps
\* the regular files.
WalkedFiles(walker, ih) ==
    LET base == Abs(walker.root)
        below == {e \in Tree : /\ Len(e.abs) >= Len(base)
                               /\ SubSeq(e.abs, 1, Len(base)) = base}
        rel(e) == SubSeq(e.abs, Len(base) + 1, Len(e.abs))
        in_depth(e) == walker.limited => Len(rel(e)) <= 1
        kept(e) == \A k \in 0..Len(rel(e)) :
                       should_process(ih, Join(walker.root, SubSeq(rel(e), 1, k)))
    IN  {Join(walker.root, rel(e)) : e \in {x \in below : ~x.dir /\ in_depth(x) /\ kept(x)}}

(***************************************************************************)
(* Vec<PathBuf>: sort and dedup.                                           *)
(***************************************************************************)
RECURSIVE InsertPath(_, _)
InsertPath(sorted, p) ==
    IF sorted = <<>> THEN <<p>>
    ELSE IF PathLess(p, Head(sorted)) THEN <<p>> \o sorted
    ELSE <<Head(sorted)>> \o InsertPath(Tail(sorted), p)

\* Vec::sort: a stable sort by Ord.
RECURSIVE sort(_)
sort(v) == IF v = <<>> THEN <<>> ELSE InsertPath(sort(SubSeq(v, 1, Len(v) - 1)), v[Len(v)])

\* Vec::dedup: of a run of equal neighbours only the first stays.
RECURSIVE dedup(_)
dedup(v) ==
    IF Len(v) <= 1 THEN v
    ELSE IF v[1] = v[2] THEN dedup(Tail(v))
    ELSE <<v[1]>> \o dedup(Tail(v))

\* The paths of a set, in sorted order.
RECURSIVE SortedSeq(_)
SortedSeq(S) ==
    IF S = {} THEN <<>>
    ELSE LET least == CHOOSE p \in S : \A q \in S : q = p \/ PathLess(p, q)
         IN  <<least>> \o SortedSeq(S \ {least})

Range(v) == {v[i] : i \in DOMAIN v}

(***************************************************************************)
(* ChunkDistributor: the pieces of distribute_files.                       *)
(***************************************************************************)
\* The (file, size) pairs of the files whose metadata can be read, in the
\* order of the list.
RECURSIVE WithSizes(_, _, _)
WithSizes(list, f, g) ==
    IF list = <<>> THEN <<>>
    ELSE (IF Abs(Head(list)) \in g THEN <<>>
          ELSE <<[file |-> Head(list), size |-> f[Abs(Head(list))].size]>>)
         \o WithSizes(Tail(list), f, g)

RECURSIVE InsertBySize(_, _)
InsertBySize(sorted, e) ==
    IF sorted = <<>> THEN <<e>>
    ELSE IF Head(sorted).size < e.size THEN <<e>> \o sorted
    ELSE <<Head(sorted)>> \o InsertBySize(Tail(sorted), e)

\* sort_by(|a, b| b.1.cmp(&a.1)): a stable sort, largest size first.
RECURSIVE sort_by_size_desc(_)
sort_by_size_desc(v) ==
    IF v = <<>> THEN <<>>
    ELSE InsertBySize(sort_by_size_desc(SubSeq(v, 1, Len(v) - 1)), v[Len(v)])

\* min_by_key over the enumerated totals: a later total replaces the best so
\* far only when it is smaller.
RECURSIVE MinScan(_, _, _)
MinScan(sizes, i, best) ==
    IF i > Len(sizes) THEN best
    ELSE MinScan(sizes, i + 1, IF sizes[i] < sizes[best] THEN i ELSE best)

\* A scan that lets a later total replace the best so far when it is as small.
RECURSIVE MinScanLast(_, _, _)
MinScanLast(sizes, i, best) ==
    IF i > Len(sizes) THEN best
    ELSE MinScanLast(sizes, i + 1, IF sizes[i] <= sizes[best] THEN i ELSE best)

\* smallest_chunk_index with the last of the equal totals winning.
last_smallest_chunk_index(sizes) == MinScanLast(sizes, 2, 1)

\* smallest_chunk_index without the scan: the first chunk whatever the totals.
first_chunk_index(sizes) == 1

smallest_chunk_index(sizes) == MinScan(sizes, 2, 1)

\* retain_non_empty without the retain: every chunk stays.
retain_every_chunk(v) == v

\* Vec::retain(|chunk| !chunk.is_empty())
RECURSIVE retain_non_empty(_)
retain_non_empty(v) ==
    IF v = <<>> THEN <<>>
    ELSE (IF Head(v) = <<>> THEN <<>> ELSE <<Head(v)>>) \o retain_non_empty(Tail(v))

(***************************************************************************)
(* The initial states: a FileProcessor just built by FileProcessor::new.   *)
(***************************************************************************)
\* Option<String> = None
NoPattern == [some |-> FALSE, v |-> <<>>]

LineCeilings == {None} \cup {Some(n) : n \in 1..MaxCeiling}

ArgsSet ==
    [ recursive : BOOLEAN,
      ignore_gitignore : BOOLEAN,
      ignore_custom : BOOLEAN,
      patterns : PatternLists,
      split_chunks : {None, Some(0), Some(MaxChunks - 1)},
      output_pattern : {NoPattern},
      create_index : {FALSE},
      max_lines : LineCeilings ]

\* Neither ignore rule file is there, or both are.
RuleFileStates ==
    { [gitignore |-> FALSE, custom |-> FALSE], [gitignore |-> TRUE, custom |-> TRUE] }

Init ==
    /\ args \in ArgsSet
    /\ rule_files \in RuleFileStates
    /\ fs \in FsStates
    /\ gone = {}
    /\ ignore_helper = NewIgnoreHelper(args, rule_files)
    /\ files = <<>>
    /\ files_to_process = <<>>
    /\ ignored_files = {}
    /\ processed_files = {}
    /\ pc = "collect"
    /\ pattern_index = 1
    /\ files_with_sizes = <<>>
    /\ next_file = 1
    /\ result = <<>>
    /\ chunk_sizes = <<>>
    /\ summary = <<>>
    /\ chunks = <<>>
    /\ chunk_index = 1
    /\ created = <<>>
    /\ outputs = <<>>
    /\ printed = {}

(***************************************************************************)
(* collect_files: one step for each pattern, then the sort and dedup.      *)
(***************************************************************************)
env == <<args, rule_files, fs, gone, ignore_helper>>
dist == <<files_with_sizes, next_file, result, chunk_sizes, summary, chunks>>
out == <<chunk_index, created, outputs, printed>>
coll == <<files, files_to_process, ignored_files, processed_files, pattern_index>>

CurrentPattern == args.patterns[pattern_index]

InCollectLoop == pc = "collect" /\ pattern_index <= Len(args.patterns)

\* collect_from_directory: every regular file of the walk is included or ignored.
CollectFromDirectory ==
    /\ InCollectLoop
    /\ LET path == Components(CurrentPattern)
       IN  /\ exists(path) /\ is_dir(path)
           /\ LET entries == WalkedFiles(WalkDir_new(path), ignore_helper)
                  included == {p \in entries : should_include_file(args, fs, p)}
              IN  /\ processed_files' = processed_files \cup included
                  /\ files' = files \o SortedSeq(included)
                  /\ ignored_files' = ignored_files \cup (entries \ included)
    /\ pattern_index' = pattern_index + 1
    /\ UNCHANGED <<env, dist, out, files_to_process, pc>>

\* A literal path pushed only when the walks' filters would admit it.
push_admitted(list, path) ==
    IF should_process(ignore_helper, path) /\ should_include_file(args, fs, path)
    THEN Append(list, path)
    ELSE list

\* files.push(path.to_path_buf())
push_literal(list, path) == Append(list, path)

\* A pattern that names an existing file: the path is pushed as it is.
CollectLiteralFile ==
    /\ InCollectLoop
    /\ LET path == Components(CurrentPattern)
       IN  /\ exists(path) /\ ~is_dir(path)
           /\ files' = push_literal(files, path)
    /\ pattern_index' = pattern_index + 1
    /\ UNCHANGED <<env, dist, out, files_to_process, ignored_files, processed_files, pc>>

\* collect_from_glob_pattern: the walk of the working directory, each regular
\* file included when the pattern matches it and should_include_file admits it.
CollectFromGlobPattern ==
    /\ InCollectLoop
    /\ ~exists(Components(CurrentPattern))
    /\ LET regex == glob_to_regex(CurrentPattern)
       IN  /\ regex.ok
           /\ LET entries == WalkedFiles(create_walker(args), ignore_helper)
                  included == {p \in entries : /\ is_match(regex, to_str(p))
                                               /\ should_include_file(args, fs, p)}
              IN  /\ processed_files' = processed_files \cup included
                  /\ files' = files \o SortedSeq(included)
                  /\ ignored_files' = ignored_files \cup (entries \ included)
    /\ pattern_index' = pattern_index + 1
    /\ UNCHANGED <<env, dist, out, files_to_process, pc>>

\* glob_to_regex unwraps the result of Regex::new: a pattern that does not
\* compile panics, and the process ends there.
GlobPatternPanics ==
    /\ InCollectLoop
    /\ ~exists(Components(CurrentPattern))
    /\ ~glob_to_regex(CurrentPattern).ok
    /\ pc' = "panicked"
    /\ UNCHANGED <<env, dist, out, files, files_to_process, ignored_files, processed_files,
                   pattern_index>>

\* The end of collect_files: files.sort(); files.dedup(); files_to_process = files.
CollectFinish ==
    /\ pc = "collect"
    /\ pattern_index > Len(args.patterns)
    /\ files_to_process' = dedup(sort(files))
    /\ pc' = "collected"
    /\ UNCHANGED <<env, dist, out, files, ignored_files, processed_files, pattern_index>>

NoFilesMessage == "No files found matching the patterns."
CompleteMessage == "Processing complete. All files saved to"

\* self.files_to_process.is_empty(), answered with "no" whatever the list is.
NeverNothingCollected(list) == FALSE

\* self.files_to_process.is_empty()
NothingCollected(list) == list = <<>>

\* process: nothing was collected; the run reports it and returns.
NoFilesFound ==
    /\ pc = "collected"
    /\ NothingCollected(files_to_process)
    /\ printed' = printed \cup {NoFilesMessage}
    /\ pc' = "done"
    /\ UNCHANGED <<env, dist, coll, chunk_index, created, outputs>>

(***************************************************************************)
(* distribute_files                                                        *)
(***************************************************************************)
Splits == args.split_chunks.some /\ args.split_chunks.v # 0 /\ files_to_process # <<>>

\* No chunk count, a count of 0, or no file: one chunk with every file.
DistributeSingle ==
    /\ pc = "distribute"
    /\ ~Splits
    /\ chunks' = <<files_to_process>>
    /\ pc' = "distributed"
    /\ UNCHANGED <<env, coll, out, files_with_sizes, next_file, result, chunk_sizes, summary>>

\* The sizes are read, the list is sorted, the chunks and totals are set up.
DistributeStart ==
    /\ pc = "distribute"
    /\ Splits
    /\ files_with_sizes' = sort_by_size_desc(WithSizes(files_to_process, fs, gone))
    /\ next_file' = 1
    /\ result' = [i \in 1..args.split_chunks.v |-> <<>>]
    /\ chunk_sizes' = [i \in 1..args.split_chunks.v |-> 0]
    /\ pc' = "assign"
    /\ UNCHANGED <<env, coll, out, summary, chunks>>

\* One turn of the loop: the next file goes to the chunk with the smallest total.
DistributeStep ==
    /\ pc = "assign"
    /\ next_file <= Len(files_with_sizes)
    /\ LET e == files_with_sizes[next_file]
           smallest == smallest_chunk_index(chunk_sizes)
       IN  /\ result' = [result EXCEPT ![smallest] = Append(@, e.file)]
           /\ chunk_sizes' = [chunk_sizes EXCEPT ![smallest] = @ + e.size]
    /\ next_file' = next_file + 1
    /\ UNCHANGED <<env, coll, out, files_with_sizes, summary, chunks, pc>>

\* The summary loop: result.iter().zip(chunk_sizes.iter()) pairs the i-th chunk
\* that is left with the i-th running total, and ends with the shorter of the two.
zip_summary(retained, sizes) ==
    [i \in 1..(IF Len(retained) < Len(sizes) THEN Len(retained) ELSE Len(sizes)) |->
        [size |-> sizes[i], file_count |-> Len(retained[i])]]

\* After the loop: the empty chunks are removed, the summary is printed and the
\* chunks are returned.
DistributeFinish ==
    /\ pc = "assign"
    /\ next_file > Len(files_with_sizes)
    /\ chunks' = retain_non_empty(result)
    /\ summary' = zip_summary(retain_non_empty(result), chunk_sizes)
    /\ pc' = "distributed"
    /\ UNCHANGED <<env, coll, out, files_with_sizes, next_file, result, chunk_sizes>>

\* distribute_files, from its call to its return.
distribute_files == DistributeSingle \/ DistributeStart \/ DistributeStep \/ DistributeFinish

(***************************************************************************)
(* The output of process: the index file, one file for each chunk, and the *)
(* two file lists.  A file of the output directory is the sequence of the  *)
(* blocks written to it.                                                   *)
(***************************************************************************)
output_dir == <<<<"a", "g", "g", "-", "o", "u", "t", "p", "u", "t">>>>

Digits == <<"0", "1", "2", "3", "4", "5", "6", "7", "8", "9">>

\* usize::to_string: the decimal digits of n.
RECURSIVE to_string(_)
to_string(n) ==
    IF n < 10 THEN <<Digits[n + 1]>>
    ELSE to_string(n \div 10) \o <<Digits[(n % 10) + 1]>>

\* str::replace(from, to): every non-overlapping occurrence of from, left to right.
RECURSIVE str_replace(_, _, _)
str_replace(str, from, to) ==
    IF Len(str) < Len(from) THEN str
    ELSE IF SubSeq(str, 1, Len(from)) = from
         THEN to \o str_replace(SubSeq(str, Len(from) + 1, Len(str)), from, to)
    ELSE <<Head(str)>> \o str_replace(Tail(str), from, to)

Placeholder == <<"{", "}">>

\* get_output_filename(index, total_chunks), index counted from 0.
get_output_filename(a, index, total_chunks) ==
    LET filename ==
            IF a.output_pattern.some
            THEN IF total_chunks > 1
                 THEN str_replace(a.output_pattern.v, Placeholder, to_string(index + 1))
                 ELSE str_replace(a.output_pattern.v, Placeholder, <<>>)
            ELSE IF total_chunks > 1
                 THEN <<"o", "u", "t", "p", "u", "t", "_">> \o to_string(index + 1)
                          \o <<".", "t", "x", "t">>
            ELSE <<"o", "u", "t", "p", "u", "t", ".", "t", "x", "t">>
    IN  Join(output_dir, <<filename>>)

\* fs::read_to_string(file).is_ok(): the file is there and its bytes are UTF-8.
read_to_string_ok(f, g, path) == Abs(path) \notin g /\ f[Abs(path)].utf8

\* process_file: the header line is written, then the file is read; the
\* contents and the separator follow when the read succeeds.
process_file(f, g, path) ==
    <<[block |-> "header", file |-> path]>>
    \o (IF read_to_string_ok(f, g, path)
        THEN <<[block |-> "contents", file |-> path],
               [block |-> "separator", file |-> path]>>
        ELSE <<>>)

\* What the loop over a chunk writes to the chunk's output file.
RECURSIVE ChunkText(_, _, _)
ChunkText(f, g, chunk) ==
    IF chunk = <<>> THEN <<>>
    ELSE process_file(f, g, Head(chunk)) \o ChunkText(f, g, Tail(chunk))

\* File::create(path) and the writes that follow: the file is created or
\* truncated, and holds what this writer wrote.
Create(dir, path, text) ==
    [p \in (DOMAIN dir) \cup {path} |-> IF p = path THEN text ELSE dir[p]]

IndexPath == Join(output_dir, <<<<"f", "i", "l", "e", "_", "i", "n", "d", "e", "x", ".", "t", "x", "t">>>>)
FilesReadPath == Join(output_dir, <<<<"f", "i", "l", "e", "s", "_", "r", "e", "a", "d", ".", "t", "x", "t">>>>)
FilesIgnoredPath == Join(output_dir, <<<<"f", "i", "l", "e", "s", "_", "i", "g", "n", "o", "r", "e", "d", ".", "t", "x", "t">>>>)

\* create_index_file: one entry for each candidate, in sorted order.
create_index_file(list) ==
    LET sorted_files == sort(list)
    IN  [i \in 1..Len(sorted_files) |-> [block |-> "index", file |-> sorted_files[i]]]

\* write_file_list: one entry for each path of the set, in sorted order.
write_file_list(set) ==
    LET sorted_files == SortedSeq(set)
    IN  [i \in 1..Len(sorted_files) |-> [block |-> "listed", file |-> sorted_files[i]]]

\* process, between collect_files and distribute_files: some file was
\* collected; the index file is written when --index asks for it.
BeginOutput ==
    /\ pc = "collected"
    /\ ~NothingCollected(files_to_process)
    /\ outputs' = IF args.create_index
                  THEN Create(outputs, IndexPath, create_index_file(files_to_process))
                  ELSE outputs
    /\ pc' = "distribute"
    /\ UNCHANGED <<env, dist, coll, chunk_index, created, printed>>

\* One turn of the loop over the chunks: an empty chunk is skipped, any other
\* is written to the file get_output_filename names.
WriteChunk ==
    /\ pc = "distributed"
    /\ chunk_index <= Len(chunks)
    /\ LET chunk == chunks[chunk_index]
           output_path == get_output_filename(args, chunk_index - 1, Len(chunks))
       IN  IF chunk = <<>>
           THEN UNCHANGED <<created, outputs>>
           ELSE /\ created' = Append(created, output_path)
                /\ outputs' = Create(outputs, output_path, ChunkText(fs, gone, chunk))
    /\ chunk_index' = chunk_index + 1
    /\ UNCHANGED <<env, dist, coll, printed, pc>>

\* After the loop: files_read.txt and files_ignored.txt, and the closing report.
WriteFileLists ==
    /\ pc = "distributed"
    /\ chunk_index > Len(chunks)
    /\ outputs' = Create(Create(outputs, FilesReadPath, write_file_list(processed_files)),
                         FilesIgnoredPath, write_file_list(ignored_files))
    /\ printed' = printed \cup {CompleteMessage}
    /\ pc' = "done"
    /\ UNCHANGED <<env, dist, coll, chunk_index, created>>

Next ==
    \/ CollectFromDirectory
    \/ CollectLiteralFile
    \/ CollectFromGlobPattern
    \/ GlobPatternPanics
    \/ CollectFinish
    \/ NoFilesFound
    \/ BeginOutput
    \/ distribute_files
    \/ WriteChunk
    \/ WriteFileLists

Spec == Init /\ [][Next]_vars

(***************************************************************************)
(* distribute_files on its own: it is a function of the candidate list,    *)
(* the chunk count and the sizes the file system reports.  The initial     *)
(* states are the states process calls it in: a sorted, deduplicated,      *)
(* non-empty list of candidates.                                           *)
(***************************************************************************)
DistCandidates == {<<N_a>>, <<CurDir, N_a>>, <<CurDir, N_b>>, <<N_s, N_c>>}

DistFiles == {Abs(p) : p \in DistCandidates}

\* A file of n bytes, each a line end.
TextOfSize(n) == [size |-> n, nullAt |-> 0, utf8 |-> TRUE, lines |-> n]

InitDist ==
    /\ args \in [ recursive : {TRUE},
                  ignore_gitignore : {FALSE},
                  ignore_custom : {FALSE},
                  patterns : {<<P_all>>},
                  split_chunks : {None} \cup {Some(k) : k \in 0..MaxChunks},
                  output_pattern : {NoPattern},
                  create_index : {FALSE},
                  max_lines : {None} ]
    /\ rule_files = [gitignore |-> FALSE, custom |-> FALSE]
    /\ \E sz \in [DistFiles -> 0..MaxSize] :
           fs = [f \in Files |-> IF f \in DistFiles THEN TextOfSize(sz[f]) ELSE BaseFs[f]]
    /\ gone \in SUBSET DistFiles
    /\ ignore_helper = NewIgnoreHelper(args, rule_files)
    /\ files_to_process \in {SortedSeq(S) : S \in (SUBSET DistCandidates) \ {{}}}
    /\ files = files_to_process
    /\ ignored_files = {}
    /\ processed_files = {}
    /\ pc = "distribute"
    /\ pattern_index = Len(args.patterns) + 1
    /\ files_with_sizes = <<>>
    /\ next_file = 1
    /\ result = <<>>
    /\ chunk_sizes = <<>>
    /\ summary = <<>>
    /\ chunks = <<>>
    /\ chunk_index = 1
    /\ created = <<>>
    /\ outputs = <<>>
    /\ printed = {}

NextDist == distribute_files

SpecDist == InitDist /\ [][NextDist]_vars

(***************************************************************************)
(* process after collect_files, on its own: what it writes is a function   *)
(* of the candidate list, the options and the file system.  The initial    *)
(* states are the states collect_files can leave: a sorted, deduplicated   *)
(* list, empty or not; the walked candidates are the ones recorded as      *)
(* processed.                                                              *)
(***************************************************************************)
P_out == <<"o">>
P_out_n == <<"o", "{", "}">>

\* -o is not given, names a pattern with the placeholder, or one without it.
OutputPatterns == {NoPattern, Some(P_out_n), Some(P_out)}

InitWrite ==
    /\ args \in [ recursive : {TRUE},
                  ignore_gitignore : {FALSE},
                  ignore_custom : {FALSE},
                  patterns : {<<P_all>>},
                  split_chunks : {None} \cup {Some(k) : k \in 0..MaxChunks},
                  output_pattern : OutputPatterns,
                  create_index : BOOLEAN,
                  max_lines : {None} ]
    /\ rule_files = [gitignore |-> FALSE, custom |-> FALSE]
    /\ fs \in FsStates
    /\ gone \in {{}, {<<N_a>>}}
    /\ ignore_helper = NewIgnoreHelper(args, rule_files)
    /\ files_to_process \in {SortedSeq(S) : S \in SUBSET DistCandidates}
    /\ files = files_to_process
    /\ ignored_files = {}
    /\ processed_files = {p \in Range(files_to_process) : p # <<N_a>>}
    /\ pc = "collected"
    /\ pattern_index = Len(args.patterns) + 1
    /\ files_with_sizes = <<>>
    /\ next_file = 1
    /\ result = <<>>
    /\ chunk_sizes = <<>>
    /\ summary = <<>>
    /\ chunks = <<>>
    /\ chunk_index = 1
    /\ created = <<>>
    /\ outputs = <<>>
    /\ printed = {}

NextWrite ==
    \/ NoFilesFound
    \/ BeginOutput
    \/ distribute_files
    \/ WriteChunk
    \/ WriteFileLists

SpecWrite == InitWrite /\ [][NextWrite]_vars

(***************************************************************************)
(* collect_files on its own, with patterns that name each file of the tree *)
(* and the VCS metadata directory.                                         *)
(***************************************************************************)
P_ignored == N_b
P_binary == <<"s", "/", "c", ".", "r", "s">>
P_large == <<"s", "/", "t", "/", "d", ".", "r", "s">>
P_vcs == N_git

CollectPatternSet == {P_rs, P_all, P_dir, P_file, P_ignored, P_binary, P_large, P_vcs}

InitCollect ==
    /\ args \in [ recursive : BOOLEAN,
                  ignore_gitignore : BOOLEAN,
                  ignore_custom : BOOLEAN,
                  patterns : SeqsUpTo(CollectPatternSet, MaxPatterns) \ {<<>>},
                  split_chunks : {None},
                  output_pattern : {NoPattern},
                  create_index : {FALSE},
                  max_lines : LineCeilings ]
    /\ rule_files \in RuleFileStates
    /\ fs \in FsStates
    /\ gone = {}
    /\ ignore_helper = NewIgnoreHelper(args, rule_files)
    /\ files = <<>>
    /\ files_to_process = <<>>
    /\ ignored_files = {}
    /\ processed_files = {}
    /\ pc = "collect"
    /\ pattern_index = 1
    /\ files_with_sizes = <<>>
    /\ next_file = 1
    /\ result = <<>>
    /\ chunk_sizes = <<>>
    /\ summary = <<>>
    /\ chunks = <<>>
    /\ chunk_index = 1
    /\ created = <<>>
    /\ outputs = <<>>
    /\ printed = {}

collect_files ==
    \/ CollectFromDirectory
    \/ CollectLiteralFile
    \/ CollectFromGlobPattern
    \/ CollectFinish

SpecCollect == InitCollect /\ [][collect_files]_vars

(***************************************************************************)
(* collect_from_glob_pattern on its own: one glob pattern, drawn from the  *)
(* strings over the characters of glob patterns, matched against every     *)
(* file of a recursive walk with the ignore rules switched off.            *)
(***************************************************************************)
PatternChars == {"*", ".", "{", "}", ",", "/", "a", "r", "s", "(", ")", " "}

\* The strings over PatternChars of length n.
RECURSIVE StringsOfLen(_)
StringsOfLen(n) ==
    IF n = 0 THEN {<<>>}
    ELSE {Append(t, c) : t \in StringsOfLen(n - 1), c \in PatternChars}

P_ext == <<"*", ".", "{", "r", "s", ",", "m", "d", "}">>
P_below == <<"s", "/", "*">>

\* The glob patterns: the short strings that do not name an existing path,
\* and the two patterns *.{rs,md} and s/*.
GlobPatterns ==
    {t \in UNION {StringsOfLen(n) : n \in 1..MaxPatternLen} : ~exists(Components(t))}
        \cup {P_ext, P_below}

InitGlob ==
    /\ args \in [ recursive : {TRUE},
                  ignore_gitignore : {TRUE},
                  ignore_custom : {TRUE},
                  patterns : {<<t>> : t \in GlobPatterns},
                  split_chunks : {None},
                  output_pattern : {NoPattern},
                  create_index : {FALSE},
                  max_lines : {None} ]
    /\ rule_files \in RuleFileStates
    /\ fs = BaseFs
    /\ gone = {}
    /\ ignore_helper = NewIgnoreHelper(args, rule_files)
    /\ files = <<>>
    /\ files_to_process = <<>>
    /\ ignored_files = {}
    /\ processed_files = {}
    /\ pc = "collect"
    /\ pattern_index = 1
    /\ files_with_sizes = <<>>
    /\ next_file = 1
    /\ result = <<>>
    /\ chunk_sizes = <<>>
    /\ summary = <<>>
    /\ chunks = <<>>
    /\ chunk_index = 1
    /\ created = <<>>
    /\ outputs = <<>>
    /\ printed = {}

NextGlob ==
    \/ CollectFromGlobPattern
    \/ GlobPatternPanics
    \/ CollectFinish

SpecGlob == InitGlob /\ [][NextGlob]_vars

(***************************************************************************)
(* Properties of distribute_files.                                         *)
(***************************************************************************)
\* distribute_files has returned from its packing branch (K >= 1).
Packed == pc = "distributed" /\ Splits

RECURSIVE Flatten(_)
Flatten(v) == IF v = <<>> THEN <<>> ELSE Head(v) \o Flatten(Tail(v))

Occurrences(v, x) == Cardinality({i \in DOMAIN v : v[i] = x})

SameMultiset(v, w) ==
    \A x \in Range(v) \cup Range(w) : Occurrences(v, x) = Occurrences(w, x)

\* C1: for K >= 1 and a non-empty CandidateSet, whatever the file system says
\* when the files are distributed, the returned chunks together hold every
\* candidate file exactly once: none dropped, none duplicated.
C1_ChunksPartitionCandidates ==
    Packed => SameMultiset(Flatten(chunks), files_to_process)

\* C2: for K >= 1 and a non-empty CandidateSet, the returned list holds no
\* empty chunk and at most K chunks.
C2_NoEmptyChunkAtMostK ==
    Packed => /\ \A i \in DOMAIN chunks : chunks[i] # <<>>
              /\ Len(chunks) <= args.split_chunks.v

\* C2's case: some of the K chunks received no file and were removed.
C2_Witness ==
    /\ Packed
    /\ chunks # <<>>
    /\ \E i \in DOMAIN result : result[i] = <<>>

\* The reference greedy assignment.  The candidates whose size can be read,
\* by their place in the CandidateSet:
SizedPlaces == {i \in DOMAIN files_to_process : Abs(files_to_process[i]) \notin gone}

SizeAt(i) == fs[Abs(files_to_process[i])].size

\* i is taken before j: it is larger, or as large and earlier in the CandidateSet.
TakenBefore(i, j) == SizeAt(i) > SizeAt(j) \/ (SizeAt(i) = SizeAt(j) /\ i < j)

\* The place in the CandidateSet of the n-th file taken.
RefPlace(n) ==
    CHOOSE i \in SizedPlaces : Cardinality({j \in SizedPlaces : TakenBefore(j, i)}) = n - 1

\* The chunk the next file goes to: a smallest total, the lowest index among equals.
RefChunkFor(totals) ==
    CHOOSE j \in DOMAIN totals :
        /\ \A i \in DOMAIN totals : totals[j] <= totals[i]
        /\ \A i \in DOMAIN totals : i < j => totals[i] > totals[j]

\* The chunks and totals after the first n files were taken.
RECURSIVE RefGreedy(_)
RefGreedy(n) ==
    IF n = 0
    THEN [chunks |-> [i \in 1..args.split_chunks.v |-> <<>>],
          totals |-> [i \in 1..args.split_chunks.v |-> 0]]
    ELSE LET before == RefGreedy(n - 1)
             j == RefChunkFor(before.totals)
             place == RefPlace(n)
         IN  [chunks |-> [before.chunks EXCEPT ![j] = Append(@, files_to_process[place])],
              totals |-> [before.totals EXCEPT ![j] = @ + SizeAt(place)]]

\* C3: with K >= 1 distribute_files computes the reference greedy assignment:
\* the files are taken largest first, files of equal size in CandidateSet
\* order, each goes to the chunk whose total is smallest at that moment, the
\* lowest index among equal totals, and its size is added to that total; the
\* returned list is that assignment without its empty chunks, so it is
\* determined by the CandidateSet, the sizes and K.
C3_ReferenceGreedy ==
    /\ pc = "assign" =>
          /\ Len(files_with_sizes) = Cardinality(SizedPlaces)
          /\ \A n \in DOMAIN files_with_sizes :
                 files_with_sizes[n] = [file |-> files_to_process[RefPlace(n)],
                                        size |-> SizeAt(RefPlace(n))]
          /\ result = RefGreedy(next_file - 1).chunks
          /\ chunk_sizes = RefGreedy(next_file - 1).totals
    /\ Packed =>
          LET all == RefGreedy(Cardinality(SizedPlaces)).chunks
              kept == {i \in DOMAIN all : all[i] # <<>>}
          IN  /\ Len(chunks) = Cardinality(kept)
              /\ \A i \in kept :
                     chunks[Cardinality({k \in kept : k <= i})] = all[i]

\* C3's case: two candidates of equal size were taken, at least two chunks
\* were returned and one of them holds two files.
C3_Witness ==
    /\ Packed
    /\ \E i, j \in SizedPlaces : i # j /\ SizeAt(i) = SizeAt(j)
    /\ Len(chunks) >= 2
    /\ \E i \in DOMAIN chunks : Len(chunks[i]) >= 2

(***************************************************************************)
(* Properties of collect_files.                                            *)
(***************************************************************************)
\* collect_files has returned.
Collected == pc \in {"collected", "distribute", "assign", "distributed", "done"}

\* C4: after collect_files the CandidateSet is sorted and holds no file
\* twice, two entries that name the same absolute path being the same file.
C4_SortedNoDuplicateFile ==
    Collected =>
        \A i, j \in DOMAIN files_to_process :
            i < j => /\ PathLess(files_to_process[i], files_to_process[j])
                     /\ Abs(files_to_process[i]) # Abs(files_to_process[j])

\* C5: after collect_files no path of the CandidateSet is in the rejected
\* set, also when an earlier pattern rejected it and a later one accepted it.
C5_AcceptedNotRejected ==
    Collected => Range(files_to_process) \cap ignored_files = {}

\* The directories a walk is started in by the patterns processed so far, with
\* whether the walk stops at depth 1.
TraversalRoots ==
    {create_walker(args) : i \in {k \in 1..(pattern_index - 1) :
                                     ~exists(Components(args.patterns[k]))}}
    \cup {WalkDir_new(Components(args.patterns[i])) :
              i \in {k \in 1..(pattern_index - 1) : is_dir(Components(args.patterns[k]))}}

\* The regular files below a walk's root, within its depth, none of whose
\* directories (the root included) is pruned.
ReachableFiles(walker) ==
    LET base == Abs(walker.root)
        below == {f \in Files : /\ Len(f) > Len(base)
                                /\ SubSeq(f, 1, Len(base)) = base}
        in_depth(f) == walker.limited => Len(f) = Len(base) + 1
        pruned(dir) == ~should_process(ignore_helper, dir)
    IN  {f \in below : /\ in_depth(f)
                       /\ \A k \in Len(base)..(Len(f) - 1) :
                              ~pruned(Join(walker.root, SubSeq(f, Len(base) + 1, k)))}

\* C6: after collect_files the accepted and the rejected paths are together
\* exactly the regular files reachable under the traversal roots once the
\* ignored directories are pruned.
C6_RecordedIsReachable ==
    Collected =>
        {Abs(p) : p \in processed_files \cup ignored_files}
            = UNION {ReachableFiles(w) : w \in TraversalRoots}

\* C7: a file a walk visits that has a null byte in its first 1024 bytes, or
\* more than 1,000,000 bytes, is rejected: no walk accepts it, with or without
\* a line ceiling.
C7_BinaryNeverAccepted ==
    \A p \in processed_files : ~is_binary_file(fs, p)

\* Some directory on the way to the path, or the path itself, is matched.
MatchedBy(rules, path) ==
    \E k \in 1..Len(Abs(path)) : SubSeq(Abs(path), 1, k) \in rules

\* C8: each option switches off its own rule source only: with -i alone the
\* walks still leave out what the custom ignore file matches, with
\* --no-custom-ignore alone what the VCS ignore file matches.
C8_OtherSourceStillApplies ==
    \A p \in processed_files \cup ignored_files :
        /\ (args.ignore_gitignore /\ ~args.ignore_custom /\ rule_files.custom)
               => ~MatchedBy(CustomRules, p)
        /\ (args.ignore_custom /\ ~args.ignore_gitignore /\ rule_files.gitignore)
               => ~MatchedBy(GitignoreRules, p)

\* C9: the walk of a directory named by a pattern respects the recursion
\* setting: without -r it adds only files directly inside that directory.
C9_DirectoryWalkDepth ==
    [][ (InCollectLoop /\ is_dir(Components(CurrentPattern)) /\ ~args.recursive)
            => \A i \in (Len(files) + 1)..Len(files') :
                   Len(files'[i]) = Len(Components(CurrentPattern)) + 1 ]_vars

\* C10: a pattern that does not compile matches nothing: collect_files goes
\* on with the remaining patterns and the run is not aborted.
C10_BadPatternDoesNotAbort ==
    pc # "panicked"
(***************************************************************************)
(* Properties of the output of process.                                    *)
(***************************************************************************)
\* C11: in one run no two chunks are written to the same output path,
\* whatever the output-filename pattern is and however many chunks there are.
C11_ChunksHaveOwnOutputPath ==
    \A i, j \in DOMAIN created : i # j => created[i] # created[j]

\* The blocks of the chunk output files.
WrittenBlocks ==
    UNION {Range(outputs[p]) : p \in Range(created)}

\* C12: a chunk output file holds no text at all, not even a header line,
\* for a member file whose content could not be read.
C12_FailedReadLeavesNoText ==
    \A b \in WrittenBlocks : read_to_string_ok(fs, gone, b.file)

\* C16: when collect_files leaves no candidate, process reports that no file
\* was found and returns: distribute_files is not called, and no chunk file,
\* index file or file list is written.
C16_EmptyRunWritesNothing ==
    files_to_process = <<>> =>
        /\ pc \in {"collected", "done"}
        /\ pc = "done" => printed = {NoFilesMessage}
        /\ chunks = <<>> /\ summary = <<>> /\ files_with_sizes = <<>>
        /\ created = <<>>
        /\ DOMAIN outputs = {}

C16_Witness ==
    /\ files_to_process = <<>>
    /\ args.create_index
    /\ pc = "done"
    /\ NoFilesMessage \in printed

(***************************************************************************)
(* Properties of collect_files with literal paths and the VCS directory.   *)
(***************************************************************************)
\* The file a pattern names, when it names an existing regular file.
NamesFile(pattern) == exists(Components(pattern)) /\ is_file(Components(pattern))

\* C13: a pattern that names an existing regular file puts that file in the
\* CandidateSet unconditionally: whether or not the ignore rules match it, it
\* is binary or too large, or it has more lines than the ceiling.
C13_LiteralFileIsCandidate ==
    pc = "collected" =>
        \A i \in DOMAIN args.patterns :
            NamesFile(args.patterns[i]) =>
                Components(args.patterns[i]) \in Range(files_to_process)

\* A run with a named file the ignore rules match and a named file that is
\* binary and that the line ceiling refuses.
C13_Witness ==
    /\ pc = "collected"
    /\ \E i, j \in DOMAIN args.patterns :
           LET p == Components(args.patterns[i])
               q == Components(args.patterns[j])
           IN  /\ NamesFile(args.patterns[i]) /\ NamesFile(args.patterns[j])
               /\ ~should_process(ignore_helper, p)
               /\ is_binary_file(fs, q) /\ ~should_include_file(args, fs, q)
               /\ p \in Range(files_to_process) /\ q \in Range(files_to_process)

InVcsDirectory(path) == \E i \in 1..Len(path) : path[i] = N_git

\* C14: no walk, of a directory pattern or of a glob pattern, yields a file
\* with a .git component: none is recorded as accepted or as rejected,
\* whatever the ignore options are and whether or not the rule files exist.
C14_WalksSkipVcsDirectory ==
    \A p \in processed_files \cup ignored_files : ~InVcsDirectory(p)

\* A recursive walk of the working directory and a walk of .git itself, with
\* the ignore rules switched off.
C14_Witness ==
    /\ pc = "collected"
    /\ args.recursive /\ args.ignore_gitignore /\ args.ignore_custom
    /\ args.patterns = <<P_vcs, P_all>>
    /\ processed_files # {}

\* A file that is not binary and whose bytes decode.
IsText(path) == ~is_binary_file(fs, path) /\ fs[Abs(path)].utf8

\* The line ceiling admits a file: there is none, or the file has no more lines.
WithinCeiling(path) ==
    args.max_lines.some => fs[Abs(path)].lines <= args.max_lines.v

\* Some glob pattern does not match the path.
SomeGlobMisses(path) ==
    \E i \in DOMAIN args.patterns :
        /\ ~exists(Components(args.patterns[i]))
        /\ ~is_match(glob_to_regex(args.patterns[i]), to_str(path))

\* C15: a text file reached by a walk is admitted if and only if its line
\* count is at most the ceiling: it is recorded as accepted only within the
\* ceiling, and as rejected only beyond it or for a glob pattern that does
\* not match it; without a ceiling the line count rejects nothing.
C15_CeilingIsInclusive ==
    /\ \A p \in processed_files : IsText(p) => WithinCeiling(p)
    /\ \A p \in ignored_files :
           (IsText(p) /\ WithinCeiling(p)) => SomeGlobMisses(p)

\* Under one ceiling a file with exactly that many lines is accepted and a
\* file with one line more is rejected.
C15_Witness ==
    /\ pc = "collected"
    /\ args.max_lines.some
    /\ \E p \in processed_files :
           IsText(p) /\ fs[Abs(p)].lines = args.max_lines.v
    /\ \E q \in ignored_files \ processed_files :
           IsText(q) /\ fs[Abs(q)].lines = args.max_lines.v + 1 /\ ~SomeGlobMisses(q)

(***************************************************************************)
(* Properties of the pattern matcher.  The reference reads a pattern as    *)
(* the claim does: "*" is any run of characters, "{x,y}" is x or y, and    *)
(* every other character, "." included, is itself.                         *)
(***************************************************************************)
\* Every "{" of pattern[i..] is closed and every "}" closes one.
RECURSIVE BracesBalanced(_, _, _)
BracesBalanced(pattern, i, d) ==
    IF i > Len(pattern) THEN d = 0
    ELSE IF pattern[i] = "{" THEN BracesBalanced(pattern, i + 1, d + 1)
    ELSE IF pattern[i] = "}" THEN (IF d = 0 THEN FALSE ELSE BracesBalanced(pattern, i + 1, d - 1))
    ELSE BracesBalanced(pattern, i + 1, d)

\* The index of the "}" that closes the group opened at pattern[i].
RECURSIVE BraceClose(_, _, _)
BraceClose(pattern, i, depth) ==
    IF pattern[i] = "{" THEN BraceClose(pattern, i + 1, depth + 1)
    ELSE IF pattern[i] = "}" THEN (IF depth = 1 THEN i ELSE BraceClose(pattern, i + 1, depth - 1))
    ELSE BraceClose(pattern, i + 1, depth)

\* The index of the first "," of pattern[lo..hi] outside every inner group, or 0.
RECURSIVE FirstComma(_, _, _)
FirstComma(pattern, lo, hi) ==
    IF lo > hi THEN 0
    ELSE IF pattern[lo] = "{" THEN FirstComma(pattern, BraceClose(pattern, lo, 0) + 1, hi)
    ELSE IF pattern[lo] = "," THEN lo
    ELSE FirstComma(pattern, lo + 1, hi)

\* The positions of text s at which a match of pattern[lo..hi] can end when
\* it starts at one of the positions in from.
RECURSIVE GlobSeq(_, _, _, _, _)
RECURSIVE GlobAlt(_, _, _, _, _)
GlobSeq(pattern, lo, hi, s, from) ==
    IF lo > hi \/ from = {} THEN from
    ELSE IF pattern[lo] = "*"
         THEN GlobSeq(pattern, lo + 1, hi, s,
                      {j \in 1..(Len(s) + 1) : \E i \in from : i <= j})
    ELSE IF pattern[lo] = "{"
         THEN LET close == BraceClose(pattern, lo, 0)
              IN  GlobSeq(pattern, close + 1, hi, s,
                          GlobAlt(pattern, lo + 1, close - 1, s, from))
    ELSE GlobSeq(pattern, lo + 1, hi, s,
                 {i + 1 : i \in {j \in from : j <= Len(s) /\ s[j] = pattern[lo]}})

GlobAlt(pattern, lo, hi, s, from) ==
    LET comma == FirstComma(pattern, lo, hi)
    IN  IF comma = 0 THEN GlobSeq(pattern, lo, hi, s, from)
        ELSE GlobSeq(pattern, lo, comma - 1, s, from)
                 \cup GlobAlt(pattern, comma + 1, hi, s, from)

\* Some suffix of the text, ending at its end, matches the pattern.
SuffixMatches(pattern, text) ==
    (Len(text) + 1) \in GlobSeq(pattern, 1, Len(pattern), text, 1..(Len(text) + 1))

\* C17: for a pattern of literal characters, ".", "*" and brace groups, a
\* walked path is accepted by the compiled matcher if and only if some
\* suffix of the path matches the pattern.
C17_MatcherIsSuffixGlob ==
    (pc = "collected" /\ BracesBalanced(args.patterns[1], 1, 0)) =>
        \A p \in processed_files \cup ignored_files :
            p \in processed_files <=> SuffixMatches(args.patterns[1], to_str(p))

(***************************************************************************)
(* Properties of the running totals of distribute_files.                   *)
(***************************************************************************)
\* The sum of the byte sizes of the files of a chunk.
RECURSIVE SumOfSizes(_)
SumOfSizes(chunk) ==
    IF chunk = <<>> THEN 0
    ELSE fs[Abs(Head(chunk))].size + SumOfSizes(Tail(chunk))

\* C18: the summary has one line for each returned chunk, and the size on
\* the i-th line is the sum of the sizes of the files of the i-th returned
\* chunk; the chunks that received no file are a suffix of the K chunks, so
\* the retain does not shift the chunks against their totals.
C18_SummaryTotalsMatchChunks ==
    Packed =>
        /\ Len(summary) = Len(chunks)
        /\ \A i \in DOMAIN summary :
               /\ summary[i].size = SumOfSizes(chunks[i])
               /\ summary[i].file_count = Len(chunks[i])
        /\ \A i, j \in DOMAIN result : (i < j /\ result[i] = <<>>) => result[j] = <<>>

\* Chunks were removed, two are left, and one of them holds only files of
\* zero bytes.
C18_Witness ==
    /\ Packed
    /\ Len(chunks) < args.split_chunks.v
    /\ Len(chunks) >= 2
    /\ \E i \in DOMAIN chunks : SumOfSizes(chunks[i]) = 0
    /\ \E i \in DOMAIN chunks : SumOfSizes(chunks[i]) > 0

Largest(S) == IF S = {} THEN 0 ELSE CHOOSE x \in S : \A y \in S : y <= x
Smallest(S) == IF S = {} THEN 0 ELSE CHOOSE x \in S : \A y \in S : x <= y

\* The size of the largest file of the input.
LargestFileSize == Largest({files_with_sizes[i].size : i \in DOMAIN files_with_sizes})

\* The largest running total minus the smallest.
Spread == Largest(Range(chunk_sizes)) - Smallest(Range(chunk_sizes))

\* C19: after every step of the greedy assignment the largest and the
\* smallest of the K running totals differ by no more than the size of the
\* largest file, and so do the totals distribute_files ends with.
C19_TotalsStayBalanced ==
    (pc \in {"assign", "distributed"} /\ Splits) => Spread <= LargestFileSize

\* In the middle of the loop, with two chunks or more: the totals differ by
\* exactly the size of the largest file.
C19_Witness ==
    /\ pc = "assign"
    /\ args.split_chunks.v >= 2
    /\ next_file > 2
    /\ next_file <= Len(files_with_sizes)
    /\ LargestFileSize > 0
    /\ Spread = LargestFileSize

====
